---------------------------- MODULE Spec2Model ----------------------------
(***************************************************************************)
(* Model of src/app.py: the reshape-and-merge pipeline (limpiar_tributos,  *)
(* limpiar_contribuyentes, procesar_logica) and the two routes that drive  *)
(* it (upload_files, dashboard).                                           *)
(*                                                                         *)
(* Representation.  A text is a sequence of one-character strings, so that *)
(* strip, upper, split and numeric parsing are computed, not assumed.  A   *)
(* grid cell is a record [t, n, s]: t = "nan" (empty cell), t = "num"      *)
(* (integer n) or t = "str" (text s).  Numeric cells are integers; the     *)
(* metric of line 99 is kept as an exact fraction.  Row and column indices *)
(* are 0-based as in the source; row i of a grid g is g[i + 1].            *)
(***************************************************************************)
EXTENDS Integers, Sequences, FiniteSets, TLC

VARIABLES
    pc,                 \* position of the request being modelled
    df_trib_raw,        \* grid read from temp_tributos.xlsx (line 146)
    df_cont_raw,        \* grid read from temp_contribuyentes.xlsx (line 151)
    anio,               \* request argument year (line 130)
    header_idx,         \* limpiar_tributos: resolved header row (lines 24-31)
    new_cols,           \* limpiar_contribuyentes: column labels (lines 54-65)
    df_trib,            \* long relation returned by limpiar_tributos
    df_cont,            \* long relation returned by limpiar_contribuyentes
    anios_disponibles,  \* line 160
    df_resultado,       \* value returned by procesar_logica
    response,           \* what the dashboard request answers
    disk,               \* uploads/: the two fixed-name files (lines 18-19)
    up,                 \* upload_files requests in flight
    dash                \* dashboard requests in flight

vars == <<pc, df_trib_raw, df_cont_raw, anio, header_idx, new_cols, df_trib,
          df_cont, anios_disponibles, df_resultado, response, disk, up, dash>>

-----------------------------------------------------------------------------
(* Cells *)

NaN == [t |-> "nan", n |-> 0, s |-> <<>>]
Num(k) == [t |-> "num", n |-> k, s |-> <<>>]
Str(x) == [t |-> "str", n |-> 0, s |-> x]

\* pd.notna / pd.isna
NotNa(c) == c.t # "nan"

-----------------------------------------------------------------------------
(* Texts used by the source and by the bounded inputs *)

T_Mes == <<"M", "e", "s">>
T_Anio == <<"A", "ñ", "o">>
T_Amazonas == <<"A", "m", "a", "z", "o", "n", "a", "s">>
T_AMAZONAS == <<"A", "M", "A", "Z", "O", "N", "A", "S">>
T_amazonas == <<"a", "m", "a", "z", "o", "n", "a", "s">>
T_Lima == <<"L", "i", "m", "a">>
T_LIMA == <<"L", "I", "M", "A">>
T_LimaMetro == <<"L", "i", "m", "a", " ", "M", "e", "t", "r", "o", "p", "o",
                 "l", "i", "t", "a", "n", "a">>
T_LIMA_METROPOLITANA == <<"L", "I", "M", "A", " ", "M", "E", "T", "R", "O", "P",
                          "O", "L", "I", "T", "A", "N", "A">>
T_Departamento == <<"D", "e", "p", "a", "r", "t", "a", "m", "e", "n", "t", "o">>
T_Unnamed == <<"U", "n", "n", "a", "m", "e", "d">>
T_DROP == <<"D", "R", "O", "P">>
T_nan == <<"n", "a", "n">>
T_ND == <<"N", "/", "D">>
T_Total == <<"T", "o", "t", "a", "l">>

T_Ene == <<"E", "n", "e", ".">>
T_Feb == <<"F", "e", "b", ".">>
T_Mar == <<"M", "a", "r", ".">>
T_Abr == <<"A", "b", "r", ".">>
T_May == <<"M", "a", "y", ".">>
T_Jun == <<"J", "u", "n", ".">>
T_Jul == <<"J", "u", "l", ".">>
T_Ago == <<"A", "g", "o", ".">>
T_Sep == <<"S", "e", "p", ".">>
T_Set == <<"S", "e", "t", ".">>
T_Oct == <<"O", "c", "t", ".">>
T_Nov == <<"N", "o", "v", ".">>
T_Dic == <<"D", "i", "c", ".">>

T_Enero == <<"E", "n", "e", "r", "o">>
T_Febrero == <<"F", "e", "b", "r", "e", "r", "o">>
T_Marzo == <<"M", "a", "r", "z", "o">>
T_Abril == <<"A", "b", "r", "i", "l">>
T_Mayo == <<"M", "a", "y", "o">>
T_Junio == <<"J", "u", "n", "i", "o">>
T_Julio == <<"J", "u", "l", "i", "o">>
T_Agosto == <<"A", "g", "o", "s", "t", "o">>
T_Septiembre == <<"S", "e", "p", "t", "i", "e", "m", "b", "r", "e">>
T_Octubre == <<"O", "c", "t", "u", "b", "r", "e">>
T_Noviembre == <<"N", "o", "v", "i", "e", "m", "b", "r", "e">>
T_Diciembre == <<"D", "i", "c", "i", "e", "m", "b", "r", "e">>

-----------------------------------------------------------------------------
(* Python string primitives *)

Digits == <<"0", "1", "2", "3", "4", "5", "6", "7", "8", "9">>
LowerChars == <<"a", "b", "c", "d", "e", "f", "g", "h", "i", "j", "k", "l", "m",
                "n", "o", "p", "q", "r", "s", "t", "u", "v", "w", "x", "y", "z",
                "ñ">>
UpperChars == <<"A", "B", "C", "D", "E", "F", "G", "H", "I", "J", "K", "L", "M",
                "N", "O", "P", "Q", "R", "S", "T", "U", "V", "W", "X", "Y", "Z",
                "Ñ">>
\* The characters of the model in code-point order (str comparison).
Alphabet == <<" ", ".", "/">> \o Digits \o SubSeq(UpperChars, 1, 26) \o <<"_">>
            \o SubSeq(LowerChars, 1, 26) \o <<"Ñ", "ñ">>

IndexOf(c, seq) ==
    IF \E i \in 1..Len(seq) : seq[i] = c
    THEN CHOOSE i \in 1..Len(seq) : seq[i] = c
    ELSE 0

\* str.upper, one character
UpperChar(c) == IF IndexOf(c, LowerChars) = 0 THEN c ELSE UpperChars[IndexOf(c, LowerChars)]

\* str.upper
Upper(x) == [i \in 1..Len(x) |-> UpperChar(x[i])]

IsSpace(c) == c = " "

\* str.strip
Strip(x) ==
    LET keep == {i \in 1..Len(x) : ~IsSpace(x[i])}
    IN  IF keep = {} THEN <<>>
        ELSE LET lo == CHOOSE i \in keep : \A j \in keep : i <= j
                 hi == CHOOSE i \in keep : \A j \in keep : i >= j
             IN  SubSeq(x, lo, hi)

\* sub in x (substring test)
Contains(x, sub) ==
    \E i \in 1..(Len(x) - Len(sub) + 1) : SubSeq(x, i, i + Len(sub) - 1) = sub

\* x.startswith(pre)
StartsWith(x, pre) == Len(x) >= Len(pre) /\ SubSeq(x, 1, Len(pre)) = pre

\* str(k) for an integer k
RECURSIVE NatToText(_)
NatToText(k) ==
    IF k < 10 THEN <<Digits[k + 1]>>
    ELSE NatToText(k \div 10) \o <<Digits[(k % 10) + 1]>>

IntToText(k) == IF k < 0 THEN <<"-">> \o NatToText(-k) ELSE NatToText(k)

\* str(cell): 'nan' for an empty cell
PyStr(c) ==
    CASE c.t = "nan" -> T_nan
      [] c.t = "num" -> IntToText(c.n)
      [] OTHER -> c.s

\* x.split('_'): the parts between underscores
RECURSIVE SplitUnderscore(_)
SplitUnderscore(x) ==
    IF ~\E i \in 1..Len(x) : x[i] = "_" THEN <<x>>
    ELSE LET p == CHOOSE i \in 1..Len(x) : x[i] = "_" /\ \A j \in 1..(i - 1) : x[j] # "_"
         IN  <<SubSeq(x, 1, p - 1)>> \o SplitUnderscore(SubSeq(x, p + 1, Len(x)))

IsDigits(x) == Len(x) > 0 /\ \A i \in 1..Len(x) : IndexOf(x[i], Digits) # 0

RECURSIVE DigitsValue(_)
DigitsValue(x) ==
    IF Len(x) = 0 THEN 0
    ELSE 10 * DigitsValue(SubSeq(x, 1, Len(x) - 1)) + (IndexOf(x[Len(x)], Digits) - 1)

\* Parsing of a text by pd.to_numeric(errors='coerce'): an integer numeral,
\* with optional sign and surrounding blanks, is its value; anything else NaN.
ParseText(x) ==
    LET y == Strip(x)
    IN  IF IsDigits(y) THEN Num(DigitsValue(y))
        ELSE IF Len(y) > 1 /\ y[1] = "-" /\ IsDigits(Tail(y)) THEN Num(-DigitsValue(Tail(y)))
        ELSE NaN

\* pd.to_numeric(cell, errors='coerce')
ToNumeric(c) ==
    CASE c.t = "num" -> c
      [] c.t = "str" -> ParseText(c.s)
      [] OTHER -> NaN

\* Series.fillna(d) on one value
FillNa(c, d) == IF c.t = "nan" THEN Num(d) ELSE c

\* Lexicographic order of texts by code point (Python str <)
RECURSIVE TextLess(_, _)
TextLess(x, y) ==
    IF Len(y) = 0 THEN FALSE
    ELSE IF Len(x) = 0 THEN TRUE
    ELSE IF x[1] = y[1] THEN TextLess(Tail(x), Tail(y))
    ELSE IndexOf(x[1], Alphabet) < IndexOf(y[1], Alphabet)

-----------------------------------------------------------------------------
(* Generic helpers *)

Min(S) == CHOOSE m \in S : \A k \in S : m <= k
Max(S) == CHOOSE m \in S : \A k \in S : m >= k

\* The increasing enumeration of a finite set of integers.
RECURSIVE SortedSeq(_)
SortedSeq(S) == IF S = {} THEN <<>> ELSE <<Min(S)>> \o SortedSeq(S \ {Min(S)})

InRow(x, texts) == \E j \in 1..Len(texts) : texts[j] = x

NoDuplicates(texts) ==
    \A i, j \in 1..Len(texts) : i # j => texts[i] # texts[j]

-----------------------------------------------------------------------------
(* limpiar_tributos (Shape A), lines 22-48 *)

\* row.astype(str).values
RowStr(row) == [j \in 1..Len(row) |-> PyStr(row[j])]

\* The test of line 27 on one row.
HeaderRowMatch(row) ==
    /\ InRow(T_Mes, RowStr(row))
    /\ (InRow(T_Amazonas, RowStr(row)) \/ InRow(T_AMAZONAS, RowStr(row)))

\* Variant of FirstHeaderRow: the loop of line 25 without its break (the
\* last matching row wins).
FirstHeaderRowLast(df) ==
    LET hits == {i \in 0..(Len(df) - 1) : HeaderRowMatch(df[i + 1])}
    IN  IF hits = {} THEN -1 ELSE Max(hits)

\* Lines 24-29: the first matching row, -1 standing for None.
FirstHeaderRow(df) ==
    LET hits == {i \in 0..(Len(df) - 1) : HeaderRowMatch(df[i + 1])}
    IN  IF hits = {} THEN -1 ELSE Min(hits)

\* Line 31: the fallback
FallbackHeaderIdx == 1

HeaderIdx(df) == IF FirstHeaderRow(df) = -1 THEN FallbackHeaderIdx ELSE FirstHeaderRow(df)

\* Lines 33-35: the header row's cells as stripped texts
StrippedHeader(df, h) == [j \in 1..Len(df[h + 1]) |-> Strip(PyStr(df[h + 1][j]))]

\* Lines 37-38: positional rename, through a dict keyed by the two labels
RenameFallback(cols) ==
    IF ~InRow(T_Mes, cols) /\ ~InRow(T_Anio, cols) /\ Len(cols) >= 2
    THEN [j \in 1..Len(cols) |->
            IF cols[j] = cols[2] THEN T_Anio
            ELSE IF cols[j] = cols[1] THEN T_Mes
            ELSE cols[j]]
    ELSE cols

TribColumns(df) == RenameFallback(StrippedHeader(df, HeaderIdx(df)))

\* What makes limpiar_tributos raise: no row at header_idx (line 33), fewer
\* than two columns for the rename (line 38), an identifier column missing
\* (melt, line 43).
TribRaises(df) ==
    \/ HeaderIdx(df) >= Len(df)
    \/ LET raw == StrippedHeader(df, HeaderIdx(df))
       IN  \/ ~InRow(T_Mes, raw) /\ ~InRow(T_Anio, raw) /\ Len(raw) < 2
           \/ ~InRow(T_Mes, TribColumns(df))
           \/ ~InRow(T_Anio, TribColumns(df))

\* Line 41: 0-based positions of the region columns, in column order
ValueVars(cols) ==
    SortedSeq({j \in 0..(Len(cols) - 1) :
                 /\ cols[j + 1] \notin {T_Mes, T_Anio}
                 /\ ~Contains(cols[j + 1], T_Unnamed)})

ColumnOf(cols, label) == CHOOSE j \in 0..(Len(cols) - 1) : cols[j + 1] = label

\* Line 44
CoerceRecaudacion(c) == FillNa(ToNumeric(c), 0)

\* Line 47
NormDepartamentoTrib(label) == Str(Strip(Upper(label)))

\* Lines 43-45 and 47: the melted relation before dropna, one record per
\* (region column, data row), column-major.  row/col are the 0-based grid
\* position of the value cell.
TribMelt(df) ==
    LET h == HeaderIdx(df)
        cols == TribColumns(df)
        vv == ValueVars(cols)
        nrows == Len(df) - (h + 1)
        cMes == ColumnOf(cols, T_Mes)
        cAnio == ColumnOf(cols, T_Anio)
    IN  [k \in 1..(Len(vv) * nrows) |->
            LET j == vv[((k - 1) \div nrows) + 1]
                r == h + 1 + ((k - 1) % nrows)
            IN  [Mes |-> df[r + 1][cMes + 1],
                 Anio |-> ToNumeric(df[r + 1][cAnio + 1]),
                 Departamento |-> NormDepartamentoTrib(cols[j + 1]),
                 Valor |-> CoerceRecaudacion(df[r + 1][j + 1]),
                 row |-> r, col |-> j]]

\* Line 46: dropna(subset=['Año'])
DropNaAnio(rel) == SelectSeq(rel, LAMBDA rec : NotNa(rec.Anio))

LimpiarTributosFn(df) == DropNaAnio(TribMelt(df))

-----------------------------------------------------------------------------
(* limpiar_contribuyentes (Shape B), lines 50-79 *)

\* Line 60: the cell is a year label that replaces current_year
IsYearLabel(y) == NotNa(y) /\ Strip(PyStr(y)) \notin {T_nan, <<>>}

\* Lines 55-61: current_year after column i has been scanned (NaN standing
\* for None, which no cell can set)
RECURSIVE CurrentYear(_, _)
CurrentYear(years, i) ==
    IF IsYearLabel(years[i + 1]) THEN years[i + 1]
    ELSE IF i = 0 THEN NaN
    ELSE CurrentYear(years, i - 1)

\* Python truth value of current_year (line 64)
Truthy(c) ==
    CASE c.t = "nan" -> FALSE
      [] c.t = "num" -> c.n # 0
      [] OTHER -> Len(c.s) > 0

\* Variant of HasLabel: "or" for the "and" of line 64.
HasLabelEither(years, months, i) ==
    Truthy(CurrentYear(years, i)) \/ NotNa(months[i + 1])

\* Line 64: the column gets a year_month label
HasLabel(years, months, i) ==
    Truthy(CurrentYear(years, i)) /\ NotNa(months[i + 1])

YearMonthLabel(y, m) == PyStr(y) \o <<"_">> \o PyStr(m)

DropLabel(i) == T_DROP \o <<"_">> \o IntToText(i)

\* Lines 57-65: the label of column i
ColumnLabel(years, months, i) ==
    IF i = 0 THEN T_Departamento
    ELSE IF HasLabel(years, months, i)
         THEN YearMonthLabel(CurrentYear(years, i), months[i + 1])
         ELSE DropLabel(i)

\* Lines 52-65
NewCols(df) == [j \in 1..Len(df[1]) |-> ColumnLabel(df[1], df[2], j - 1)]

\* Line 69: 0-based positions of the columns kept, column 0 excluded
KeptValueColumns(cols) ==
    SortedSeq({j \in 1..(Len(cols) - 1) : ~StartsWith(cols[j + 1], T_DROP)})

\* Line 74-75: map(mapa_meses).fillna(original)
MapaMeses(m) ==
    CASE m = T_Ene -> T_Enero
      [] m = T_Feb -> T_Febrero
      [] m = T_Mar -> T_Marzo
      [] m = T_Abr -> T_Abril
      [] m = T_May -> T_Mayo
      [] m = T_Jun -> T_Junio
      [] m = T_Jul -> T_Julio
      [] m = T_Ago -> T_Agosto
      [] m = T_Sep -> T_Septiembre
      [] m = T_Set -> T_Septiembre
      [] m = T_Oct -> T_Octubre
      [] m = T_Nov -> T_Noviembre
      [] m = T_Dic -> T_Diciembre
      [] OTHER -> m

\* Variant of CoerceContribuyentes: fillna(0), as line 44 has it.
CoerceContribuyentesZero(c) == FillNa(ToNumeric(c), 0)

\* Line 76
CoerceContribuyentes(c) == FillNa(ToNumeric(c), 1)

\* Line 78: .str.upper().str.strip().replace(...); the .str methods give NaN
\* for a cell that is not text
NormDepartamentoCont(c) ==
    IF c.t # "str" THEN NaN
    ELSE LET u == Strip(Upper(c.s))
         IN  Str(IF u = T_LIMA_METROPOLITANA THEN T_LIMA ELSE u)

\* What makes limpiar_contribuyentes raise: fewer than two rows (lines
\* 52-53); a Year_Mes column that does not split in exactly two parts, which
\* includes an empty melt (line 72); no text at all in column 0, so that the
\* column has no .str accessor (line 78).
ContRaises(df) ==
    \/ Len(df) < 2
    \/ LET cols == NewCols(df)
           kept == KeptValueColumns(cols)
       IN  \/ Len(kept) = 0
           \/ Len(df) = 2
           \/ \E k \in 1..Len(kept) : Len(SplitUnderscore(cols[kept[k] + 1])) # 2
           \/ \A r \in 1..Len(df) : df[r][1].t # "str"

\* Lines 71-78: one record per (kept column, data row), column-major.
ContMelt(df) ==
    LET cols == NewCols(df)
        kept == KeptValueColumns(cols)
        nrows == Len(df) - 2
    IN  [k \in 1..(Len(kept) * nrows) |->
            LET j == kept[((k - 1) \div nrows) + 1]
                r == 2 + ((k - 1) % nrows)
                parts == SplitUnderscore(cols[j + 1])
            IN  [Mes |-> Str(MapaMeses(parts[2])),
                 Anio |-> ParseText(parts[1]),
                 Departamento |-> NormDepartamentoCont(df[r + 1][1]),
                 Valor |-> CoerceContribuyentes(df[r + 1][j + 1]),
                 row |-> r, col |-> j]]

LimpiarContribuyentesFn(df) == ContMelt(df)

-----------------------------------------------------------------------------
(* procesar_logica, lines 81-102 *)

\* Variant of KeyMatch: on=['Departamento', 'Año'], the month left out.
KeyMatchNoMonth(t, c) ==
    t.Departamento = c.Departamento /\ t.Anio = c.Anio

\* Line 83: the join condition on=['Departamento', 'Año', 'Mes']
KeyMatch(t, c) ==
    t.Departamento = c.Departamento /\ t.Anio = c.Anio /\ t.Mes = c.Mes

\* Line 83: how='inner'; left order, then right order.  A merged row keeps
\* the positions ti, ci of the two records it joins.
RECURSIVE MergeFrom(_, _, _)
MergeFrom(trib, cont, i) ==
    IF i > Len(trib) THEN <<>>
    ELSE LET hits == SortedSeq({k \in 1..Len(cont) : KeyMatch(trib[i], cont[k])})
         IN  [k \in 1..Len(hits) |->
                [Departamento |-> trib[i].Departamento, Anio |-> trib[i].Anio,
                 Mes |-> trib[i].Mes, Recaudacion |-> trib[i].Valor.n,
                 Contribuyentes |-> cont[hits[k]].Valor.n,
                 ti |-> i, ci |-> hits[k]]]
             \o MergeFrom(trib, cont, i + 1)

Merge(trib, cont) == MergeFrom(trib, cont, 1)

\* Line 86
FiltrarAnio(merged, target) == SelectSeq(merged, LAMBDA m : m.Anio = Num(target))

RECURSIVE SumField(_, _)
SumField(rows, f) == IF Len(rows) = 0 THEN 0 ELSE rows[1][f] + SumField(Tail(rows), f)

\* groupby('Departamento'): the distinct non-null keys in sorted order
RECURSIVE SortTexts(_)
SortTexts(S) ==
    IF S = {} THEN <<>>
    ELSE LET m == CHOOSE x \in S : \A y \in S : ~TextLess(y, x)
         IN  <<m>> \o SortTexts(S \ {m})

GroupKeys(rows) ==
    SortTexts({rows[i].Departamento.s : i \in {k \in 1..Len(rows) : NotNa(rows[k].Departamento)}})

Million == 1000000

\* Lines 93-99: one row per region: sum of Recaudacion, mean of
\* Contribuyentes kept as ContSum / ContCount, and the metric of line 99
\* kept as the fraction MetricNum / MetricDen =
\* (Recaudacion * 1_000_000) / (ContSum / ContCount).  pos is the row's
\* position in group-by order.
Agrupar(rows) ==
    LET keys == GroupKeys(rows)
    IN  [g \in 1..Len(keys) |->
            LET mine == SelectSeq(rows, LAMBDA m : m.Departamento = Str(keys[g]))
            IN  [Departamento |-> keys[g],
                 Recaudacion |-> SumField(mine, "Recaudacion"),
                 ContSum |-> SumField(mine, "Contribuyentes"),
                 ContCount |-> Len(mine),
                 MetricNum |-> SumField(mine, "Recaudacion") * Million * Len(mine),
                 MetricDen |-> SumField(mine, "Contribuyentes"),
                 pos |-> g]]

\* Float division of line 99: x/0 is +inf or -inf, 0/0 is NaN.
MetricIsNaN(r) == r.MetricDen = 0 /\ r.MetricNum = 0

\* a's metric > b's metric, for rows whose metric is not NaN
MetricGreater(a, b) ==
    LET an == IF a.MetricDen < 0 THEN -a.MetricNum ELSE a.MetricNum
        ad == IF a.MetricDen < 0 THEN -a.MetricDen ELSE a.MetricDen
        bn == IF b.MetricDen < 0 THEN -b.MetricNum ELSE b.MetricNum
        bd == IF b.MetricDen < 0 THEN -b.MetricDen ELSE b.MetricDen
    IN  CASE ad = 0 /\ bd = 0 -> an > 0 /\ bn < 0
          [] ad = 0 -> an > 0
          [] bd = 0 -> bn < 0
          [] OTHER -> an * bd > bn * ad

PermutationsOf(n) ==
    {p \in [1..n -> 1..n] : \A i, j \in 1..n : i # j => p[i] # p[j]}

\* Line 100: sort_values(ascending=False) with the default kind='quicksort'
\* and na_position='last'.  The rows whose metric is a number come first in
\* non-increasing order; quicksort is not a stable sort, so rows with equal
\* metric may come out in any order.  The NaN rows follow in the order they had.
SortOutcomes(rows) ==
    {[i \in 1..Len(rows) |-> rows[p[i]]] : p \in
        {q \in PermutationsOf(Len(rows)) :
            \A i, j \in 1..Len(rows) : i < j =>
                /\ MetricIsNaN(rows[q[i]]) => MetricIsNaN(rows[q[j]]) /\ q[i] < q[j]
                /\ ~MetricIsNaN(rows[q[i]]) /\ ~MetricIsNaN(rows[q[j]])
                     => ~MetricGreater(rows[q[j]], rows[q[i]])}}

\* The values procesar_logica can return: none (line 90) or a ranking.
ProcesarLogicaFn(trib, cont, target) ==
    LET filtrado == FiltrarAnio(Merge(trib, cont), target)
    IN  IF Len(filtrado) = 0
        THEN {[none |-> TRUE, rows |-> <<>>]}
        ELSE {[none |-> FALSE, rows |-> out] : out \in SortOutcomes(Agrupar(filtrado))}

-----------------------------------------------------------------------------
(* dashboard, lines 128-214 *)

YearsOf(rel) == {rel[i].Anio.n : i \in {k \in 1..Len(rel) : NotNa(rel[k].Anio)}}

RECURSIVE Descending(_)
Descending(S) == IF S = {} THEN <<>> ELSE <<Max(S)>> \o Descending(S \ {Max(S)})

\* Line 160
AniosDisponibles(trib, cont) == Descending(YearsOf(trib) \cap YearsOf(cont))


\* Lines 163-166 and 204-214: what the request answers, given what
\* procesar_logica returned.  anios_disponibles[0] raises IndexError on an
\* empty list, which the handler of line 211 turns into an error page.
Responder(res, anios) ==
    IF res.none
    THEN IF Len(anios) = 0 THEN "error: list index out of range" ELSE "no hay datos"
    ELSE "result"

-----------------------------------------------------------------------------
(* One dashboard request, step by step (lines 156-209) *)

NoResult == [none |-> TRUE, rows |-> <<>>]

LimpiarTributos ==
    /\ pc = "limpiar_tributos"
    /\ IF TribRaises(df_trib_raw)
       THEN /\ pc' = "done"
            /\ response' = "error: limpiar_tributos"
            /\ UNCHANGED <<header_idx, df_trib>>
       ELSE /\ pc' = "limpiar_contribuyentes"
            /\ header_idx' = HeaderIdx(df_trib_raw)
            /\ df_trib' = LimpiarTributosFn(df_trib_raw)
            /\ UNCHANGED response
    /\ UNCHANGED <<df_trib_raw, df_cont_raw, anio, new_cols, df_cont,
                   anios_disponibles, df_resultado, disk, up, dash>>

LimpiarContribuyentes ==
    /\ pc = "limpiar_contribuyentes"
    /\ IF Len(df_cont_raw) < 2
       THEN /\ pc' = "done"
            /\ response' = "error: limpiar_contribuyentes"
            /\ UNCHANGED <<new_cols, df_cont>>
       ELSE /\ new_cols' = NewCols(df_cont_raw)
            /\ IF ContRaises(df_cont_raw)
               THEN /\ pc' = "done"
                    /\ response' = "error: limpiar_contribuyentes"
                    /\ UNCHANGED df_cont
               ELSE /\ pc' = "anios"
                    /\ df_cont' = LimpiarContribuyentesFn(df_cont_raw)
                    /\ UNCHANGED response
    /\ UNCHANGED <<df_trib_raw, df_cont_raw, anio, header_idx, df_trib,
                   anios_disponibles, df_resultado, disk, up, dash>>

CalcularAnios ==
    /\ pc = "anios"
    /\ anios_disponibles' = AniosDisponibles(df_trib, df_cont)
    /\ pc' = "procesar_logica"
    /\ UNCHANGED <<df_trib_raw, df_cont_raw, anio, header_idx, new_cols, df_trib,
                   df_cont, df_resultado, response, disk, up, dash>>

ProcesarLogica ==
    /\ pc = "procesar_logica"
    /\ \E res \in ProcesarLogicaFn(df_trib, df_cont, anio) : df_resultado' = res
    /\ pc' = "responder"
    /\ UNCHANGED <<df_trib_raw, df_cont_raw, anio, header_idx, new_cols, df_trib,
                   df_cont, anios_disponibles, response, disk, up, dash>>

Responde ==
    /\ pc = "responder"
    /\ response' = Responder(df_resultado, anios_disponibles)
    /\ pc' = "done"
    /\ UNCHANGED <<df_trib_raw, df_cont_raw, anio, header_idx, new_cols, df_trib,
                   df_cont, anios_disponibles, df_resultado, disk, up, dash>>

-----------------------------------------------------------------------------
(* Bounded inputs: the grids a dashboard request reads *)

T_2023 == <<"2", "0", "2", "3">>
T_7 == <<"7">>
T_Blank == <<" ">>
T_MesPadded == <<" ", "M", "e", "s", " ">>
T_LimaMetroPadded == <<" ">> \o T_LimaMetro \o <<" ">>

MaxTribRows == 3
MaxContCols == 2
MaxContRows == 1

\* Contents of a value cell: empty, text that is no number, empty text,
\* numbers, a number written as text.
ValueCells == {NaN, Str(T_ND), Str(<<>>), Num(5), Str(T_7)}

\* Rows of a collection grid (Mes, Año, one region): a title row, header
\* rows in several spellings, data rows.
TribRows ==
    {<<Str(T_Total), NaN, NaN>>,
     <<Str(T_Mes), Str(T_Anio), Str(T_Amazonas)>>,
     <<Str(T_Mes), Str(T_Anio), Str(T_AMAZONAS)>>,
     <<Str(T_Mes), Str(T_Anio), Str(T_amazonas)>>,
     <<Str(T_MesPadded), Str(T_Anio), Str(T_Amazonas)>>,
     <<Str(T_Ene), Str(T_2023), Num(5)>>,
     <<Str(T_Enero), Str(T_ND), Num(5)>>}
    \cup {<<Str(T_Enero), Num(2024), v>> : v \in ValueCells}

SeqsUpTo(S, n) == UNION {[1..l -> S] : l \in 1..n}

\* pandas does not melt a frame whose column labels repeat in one defined
\* way; the grids considered resolve to distinct labels (or raise before).
TribWellFormed(df) == TribRaises(df) \/ NoDuplicates(TribColumns(df))

TribGrids == {df \in SeqsUpTo(TribRows, MaxTribRows) : TribWellFormed(df)}

BaseTribGrid ==
    <<<<Str(T_Total), NaN, NaN>>,
      <<Str(T_Mes), Str(T_Anio), Str(T_Amazonas)>>,
      <<Str(T_Enero), Num(2024), Num(5)>>>>

\* Row 0 and row 1 cells of a taxpayer grid
YearCells == {NaN, Num(2024), Str(T_2023), Str(T_Blank), Num(0), Str(T_Total)}
MonthCells == {NaN, Str(T_Ene), Str(T_Set)}

ContWellFormed(df) ==
    Len(df) < 2 \/ NoDuplicates(NewCols(df))

\* Taxpayer grids that vary the two header rows, over one data row
ContHeaderGrids ==
    {df \in {<<<<y0>> \o ys, <<NaN>> \o ms, <<Str(T_Amazonas)>> \o [j \in 1..MaxContCols |-> Num(5)]>> :
               y0 \in {NaN, Str(T_Departamento)},
               ys \in [1..MaxContCols -> YearCells],
               ms \in [1..MaxContCols -> MonthCells]} :
        ContWellFormed(df)}

ContDataRows ==
    {<<d, v1, v2>> : d \in {Str(T_Amazonas), Str(T_LimaMetroPadded), NaN},
                     v1 \in ValueCells, v2 \in ValueCells}

\* Taxpayer grids that vary the data rows, under one header
ContDataGrids ==
    {<<<<NaN, Num(2024), NaN>>, <<Str(T_Departamento), Str(T_Ene), Str(T_Feb)>>>> \o rows :
        rows \in SeqsUpTo(ContDataRows, MaxContRows)}

ContGrids == ContHeaderGrids \cup ContDataGrids

BaseContGrid ==
    <<<<NaN, Num(2024), NaN>>,
      <<Str(T_Departamento), Str(T_Ene), Str(T_Feb)>>,
      <<Str(T_Amazonas), Num(5), Num(5)>>>>

\* Pairs of grids over two regions, varied together so that the join, the
\* year filter and the ranking all have cases.
PipelineTribs ==
    {<<<<Str(T_Total), NaN, NaN, NaN>>,
       <<Str(T_Mes), Str(T_Anio), Str(T_Amazonas), Str(T_Lima)>>,
       <<m, y, v1, v2>>>> :
        m \in {Str(T_Enero), Str(T_Ene)}, y \in {Num(2023), Num(2024)},
        v1 \in {Num(0), Num(5), Str(T_ND)}, v2 \in {Num(0), Num(5), Str(T_ND)}}

PipelineConts ==
    {<<<<NaN, y>>, <<NaN, m>>, <<Str(T_Amazonas), c1>>, <<Str(T_LimaMetro), c2>>>> :
        y \in {Num(2023), Num(2024)}, m \in {Str(T_Ene), Str(T_Feb)},
        c1 \in {Num(0), Num(1), Num(5), Str(T_ND)},
        c2 \in {Num(0), Num(1), Num(5), Str(T_ND)}}

-----------------------------------------------------------------------------
(* Bounded inputs of procesar_logica taken as a function of two relations *)

MaxRecords == 2

\* Keys that differ in one component at a time: month, region, year.
RankKeys ==
    <<[d |-> T_AMAZONAS, y |-> 2024, m |-> T_Enero],
      [d |-> T_AMAZONAS, y |-> 2024, m |-> T_Febrero],
      [d |-> T_LIMA, y |-> 2024, m |-> T_Enero],
      [d |-> T_LIMA, y |-> 2023, m |-> T_Enero]>>

\* The k-th record (k >= 0): key k mod 4, value lo + k div 4
RankRecord(k, lo) ==
    LET key == RankKeys[(k % Len(RankKeys)) + 1]
    IN  [Mes |-> Str(key.m), Anio |-> Num(key.y), Departamento |-> Str(key.d),
         Valor |-> Num(lo + (k \div Len(RankKeys))), row |-> 0, col |-> 0]

\* Relations of at most MaxRecords records with values lo .. hi, listed in
\* a canonical order (the order of the records of a relation does not reach
\* the ranking), duplicates of a key included.
RankRelations(lo, hi) ==
    UNION {{[i \in 1..l |-> RankRecord(ix[i], lo)] :
              ix \in {f \in [1..l -> 0..(Len(RankKeys) * (hi - lo + 1) - 1)] :
                        \A i, j \in 1..l : i < j => f[i] <= f[j]}} :
           l \in 0..MaxRecords}

Idle ==
    /\ header_idx = -1
    /\ new_cols = <<>>
    /\ anios_disponibles = <<>>
    /\ df_resultado = NoResult
    /\ response = ""
    /\ disk = [trib |-> 0, cont |-> 0]
    /\ up = <<>>
    /\ dash = <<>>

InitRank ==
    /\ pc = "procesar_logica"
    /\ df_trib_raw = <<>>
    /\ df_cont_raw = <<>>
    /\ df_trib \in RankRelations(1, 2)
    /\ df_cont \in RankRelations(0, 2)
    /\ anio \in {2023, 2024}
    /\ Idle

NextRank == ProcesarLogica

SpecRank == InitRank /\ [][NextRank]_vars

-----------------------------------------------------------------------------
(* Claims about procesar_logica *)

RECURSIVE SumValor(_, _, _)
\* Sum, over the pairs of S, of the value of the record of rel the pair's
\* component side (1: collection, 2: taxpayers) points at
SumValor(S, rel, side) ==
    IF S = {} THEN 0
    ELSE LET p == CHOOSE q \in S : TRUE
         IN  rel[p[side]].Valor.n + SumValor(S \ {p}, rel, side)

\* The pairs (collection record, taxpayer record) of region d that carry the
\* same (region, year, month) key in the target year
SharedKeys(d) ==
    {p \in (1..Len(df_trib)) \X (1..Len(df_cont)) :
        /\ df_trib[p[1]].Departamento = Str(d)
        /\ df_cont[p[2]].Departamento = Str(d)
        /\ df_trib[p[1]].Anio = Num(anio)
        /\ df_cont[p[2]].Anio = Num(anio)
        /\ df_trib[p[1]].Mes = df_cont[p[2]].Mes}

Ranked == pc = "responder" /\ ~df_resultado.none

\* C1: every row of the ranking is built from, and only from, the
\* (region, year, month) keys of the target year that occur in both
\* relations: its region has such a key, its total collection and its
\* taxpayer mean are taken over exactly those keys; hence a region whose
\* keys occur in one relation only has no row.
C1_JoinKeyExact ==
    Ranked =>
        \A i \in 1..Len(df_resultado.rows) :
            LET r == df_resultado.rows[i]
                S == SharedKeys(r.Departamento)
            IN  /\ S # {}
                /\ r.Recaudacion = SumValor(S, df_trib, 1)
                /\ r.ContSum = SumValor(S, df_cont, 2)
                /\ r.ContCount = Cardinality(S)

\* C1 witness: a ranking is returned while a region has records of the
\* target year in both relations, under different months, and is left out.
C1_Witness ==
    /\ Ranked
    /\ \E i \in 1..Len(df_trib), k \in 1..Len(df_cont) :
         /\ df_trib[i].Departamento = df_cont[k].Departamento
         /\ df_trib[i].Anio = Num(anio) /\ df_cont[k].Anio = Num(anio)
         /\ df_trib[i].Mes # df_cont[k].Mes
         /\ \A j \in 1..Len(df_resultado.rows) :
              Str(df_resultado.rows[j].Departamento) # df_trib[i].Departamento

\* C2 as claimed: the ranking is non-increasing by metric and rows with
\* equal metric keep their group-by order (rows whose metric is not a
\* number are left out of the comparison).
C2_SortedStable ==
    Ranked =>
        \A i, j \in 1..Len(df_resultado.rows) :
            LET a == df_resultado.rows[i]
                b == df_resultado.rows[j]
            IN  (i < j /\ ~MetricIsNaN(a) /\ ~MetricIsNaN(b)) =>
                   /\ ~MetricGreater(b, a)
                   /\ ~MetricGreater(a, b) => a.pos < b.pos

-----------------------------------------------------------------------------
(* The dashboard request over the grids it read *)

Init ==
    /\ pc = "limpiar_tributos"
    /\ \/ df_trib_raw \in TribGrids /\ df_cont_raw = BaseContGrid /\ anio = 2024
       \/ df_trib_raw = BaseTribGrid /\ df_cont_raw \in ContGrids /\ anio = 2024
       \/ df_trib_raw \in PipelineTribs /\ df_cont_raw \in PipelineConts
          /\ anio \in {2023, 2024}
    /\ df_trib = <<>>
    /\ df_cont = <<>>
    /\ Idle

Next ==
    \/ LimpiarTributos
    \/ LimpiarContribuyentes
    \/ CalcularAnios
    \/ ProcesarLogica
    \/ Responde

Spec == Init /\ [][Next]_vars

-----------------------------------------------------------------------------
(* Claims about the reshapers and the dashboard request *)

TribDone == pc \notin {"limpiar_tributos"} /\ response # "error: limpiar_tributos"
ContDone ==
    /\ pc \notin {"limpiar_tributos", "limpiar_contribuyentes"}
    /\ response \notin {"error: limpiar_tributos", "error: limpiar_contribuyentes"}

\* The number a cell of the bounded inputs holds, by cases on the cell
HoldsNumber(c) == c.t = "num" \/ c = Str(T_7) \/ c = Str(T_2023)
NumberHeld(c) ==
    CASE c.t = "num" -> c.n
      [] c = Str(T_7) -> 7
      [] c = Str(T_2023) -> 2023

\* C4: neither reshaper raises because of what a value cell holds (it
\* raises only for a grid too short or with no labelled column), every
\* value cell of a record kept gives one record, and the record's value is
\* the cell's number when it holds one, else 0 in the collection relation
\* and 1 in the taxpayer relation.
C4_CoercionTotal ==
    /\ response = "error: limpiar_tributos" => Len(df_trib_raw) < 2
    /\ response = "error: limpiar_contribuyentes" =>
          \/ Len(df_cont_raw) <= 2
          \/ \A j \in 2..Len(new_cols) : SubSeq(new_cols[j], 1, 4) = T_DROP
    /\ TribDone =>
          /\ \A i \in 1..Len(df_trib) :
                LET c == df_trib_raw[df_trib[i].row + 1][df_trib[i].col + 1]
                IN  df_trib[i].Valor = Num(IF HoldsNumber(c) THEN NumberHeld(c) ELSE 0)
          /\ \A r \in (header_idx + 1)..(Len(df_trib_raw) - 1) :
             \A j \in 2..(Len(df_trib_raw[r + 1]) - 1) :
                HoldsNumber(df_trib_raw[r + 1][2]) =>
                    Cardinality({i \in 1..Len(df_trib) :
                                   df_trib[i].row = r /\ df_trib[i].col = j}) = 1
    /\ ContDone =>
          /\ \A i \in 1..Len(df_cont) :
                LET c == df_cont_raw[df_cont[i].row + 1][df_cont[i].col + 1]
                IN  df_cont[i].Valor = Num(IF HoldsNumber(c) THEN NumberHeld(c) ELSE 1)
          /\ \A r \in 2..(Len(df_cont_raw) - 1) :
             \A j \in 1..(Len(new_cols) - 1) :
                SubSeq(new_cols[j + 1], 1, 4) # T_DROP =>
                    Cardinality({i \in 1..Len(df_cont) :
                                   df_cont[i].row = r /\ df_cont[i].col = j}) = 1

\* C4 witness: both reshapers have run on grids with an "N/D" value cell;
\* the collection record of that cell holds 0, the taxpayer record 1.
C4_Witness ==
    /\ ContDone
    /\ \E i \in 1..Len(df_trib) :
         /\ df_trib_raw[df_trib[i].row + 1][df_trib[i].col + 1] = Str(T_ND)
         /\ df_trib[i].Valor = Num(0)
    /\ \E i \in 1..Len(df_cont) :
         /\ df_cont_raw[df_cont[i].row + 1][df_cont[i].col + 1] = Str(T_ND)
         /\ df_cont[i].Valor = Num(1)

\* C5 as claimed: no record of either long relation has a null year.
C5_NoNullYear ==
    /\ \A i \in 1..Len(df_trib) : NotNa(df_trib[i].Anio)
    /\ \A i \in 1..Len(df_cont) : NotNa(df_cont[i].Anio)

AbbreviatedMonths ==
    {T_Ene, T_Feb, T_Mar, T_Abr, T_May, T_Jun, T_Jul, T_Ago, T_Sep, T_Set,
     T_Oct, T_Nov, T_Dic}

\* C6 as claimed: in both long relations no month is left as an
\* abbreviated token of the mapping.
C6_MonthsNormalized ==
    /\ \A i \in 1..Len(df_trib) : df_trib[i].Mes.s \notin AbbreviatedMonths
    /\ \A i \in 1..Len(df_cont) : df_cont[i].Mes.s \notin AbbreviatedMonths

\* The rows of the collection grid that hold the cell "Mes" and a cell
\* that is one of the given spellings
RowsWith(spellings) ==
    {i \in 0..(Len(df_trib_raw) - 1) :
        /\ \E j \in 1..Len(df_trib_raw[i + 1]) : df_trib_raw[i + 1][j] = Str(T_Mes)
        /\ \E j \in 1..Len(df_trib_raw[i + 1]) :
              df_trib_raw[i + 1][j].t = "str" /\ df_trib_raw[i + 1][j].s \in spellings}

\* The spellings of "Amazonas" in any letter case that the bounded grids use
AnyCaseAmazonas == {T_Amazonas, T_AMAZONAS, T_amazonas}

\* C7 as claimed: the header is the first row with "Mes" and "Amazonas" in
\* any letter case, else row 1.
C7_HeaderAnyCase ==
    TribDone =>
        header_idx = IF RowsWith(AnyCaseAmazonas) = {} THEN 1
                     ELSE Min(RowsWith(AnyCaseAmazonas))

\* C7 amended: the header is the first row with "Mes" and a cell spelled
\* exactly "Amazonas" or "AMAZONAS", else row 1.
C7_HeaderExactSpellings ==
    TribDone =>
        header_idx = IF RowsWith({T_Amazonas, T_AMAZONAS}) = {} THEN 1
                     ELSE Min(RowsWith({T_Amazonas, T_AMAZONAS}))

\* C7 witness: row 0 holds "Mes" and "amazonas", rows 1 and 2 hold "Mes"
\* and an exact spelling; the header resolved is row 1.
C7_Witness ==
    /\ TribDone
    /\ header_idx = 1
    /\ 0 \in RowsWith({T_amazonas})
    /\ {1, 2} \subseteq RowsWith({T_Amazonas, T_AMAZONAS})

\* C7 witness of the fallback: no row matches and the header is row 1.
C7_WitnessFallback ==
    TribDone /\ RowsWith({T_Amazonas, T_AMAZONAS}) = {} /\ header_idx = 1

\* C8 as claimed: no row of a ranking has a zero taxpayer mean.
C8_AvgNonZero ==
    (pc \in {"responder", "done"} /\ ~df_resultado.none) =>
        \A i \in 1..Len(df_resultado.rows) : df_resultado.rows[i].ContSum # 0

\* C3 as claimed: when the target year is not a year of both relations,
\* procesar_logica returns none, and the list of available years is not
\* empty if either relation has a year, so that the recovery link exists.
C3_EmptyWithRecovery ==
    (pc = "done" /\ ContDone /\ anio \notin (YearsOf(df_trib) \cap YearsOf(df_cont))) =>
        /\ df_resultado.none
        /\ (YearsOf(df_trib) \cup YearsOf(df_cont)) # {} =>
              Len(anios_disponibles) > 0 /\ response = "no hay datos"

\* The text of a header cell of the bounded inputs, by cases on the cell
HeaderText(c) ==
    CASE c = Num(2024) -> <<"2", "0", "2", "4">>
      [] c = Num(2023) -> <<"2", "0", "2", "3">>
      [] c = Num(0) -> <<"0">>
      [] OTHER -> c.s

\* The columns up to j whose row-0 cell is not empty (not blank either)
YearColumns(j) ==
    {i \in 0..j : df_cont_raw[1][i + 1] \notin {NaN, Str(T_Blank), Str(<<>>)}}

FilledYear(j) == df_cont_raw[1][Max(YearColumns(j)) + 1]

\* C10 as claimed: column 0 is the region column; any other column is
\* excluded when it lacks both the forward-filled year and the month, and
\* is otherwise labelled year_month.
C10_ExcludedWhenBoth ==
    Len(new_cols) > 0 =>
        /\ new_cols[1] = T_Departamento
        /\ \A j \in 1..(Len(new_cols) - 1) :
              IF YearColumns(j) = {} /\ df_cont_raw[2][j + 1] = NaN
              THEN new_cols[j + 1] = T_DROP \o <<"_", Digits[j + 1]>>
              ELSE /\ YearColumns(j) # {}
                   /\ new_cols[j + 1] = HeaderText(FilledYear(j)) \o <<"_">>
                                           \o HeaderText(df_cont_raw[2][j + 1])

\* C10 amended: column 0 is the region column; any other column is
\* excluded when it lacks the forward-filled year (none seen yet, or the
\* number 0) or the month, and is otherwise labelled year_month.
C10_ExcludedWhenEither ==
    Len(new_cols) > 0 =>
        /\ new_cols[1] = T_Departamento
        /\ \A j \in 1..(Len(new_cols) - 1) :
              IF \/ YearColumns(j) = {}
                 \/ FilledYear(j) = Num(0)
                 \/ df_cont_raw[2][j + 1] = NaN
              THEN new_cols[j + 1] = T_DROP \o <<"_", Digits[j + 1]>>
              ELSE new_cols[j + 1] = HeaderText(FilledYear(j)) \o <<"_">>
                                        \o HeaderText(df_cont_raw[2][j + 1])

\* C10 witness: column 1 has a year and no month and is excluded; column
\* 2 has no year of its own, inherits column 1's, has a month and is labelled.
C10_Witness ==
    /\ Len(new_cols) > 2
    /\ df_cont_raw[1][2] = Num(2024) /\ df_cont_raw[2][2] = NaN
    /\ df_cont_raw[1][3] = NaN /\ df_cont_raw[2][3] = Str(T_Set)
    /\ new_cols[2] = T_DROP \o <<"_", "1">>
    /\ new_cols[3] = <<"2", "0", "2", "4", "_", "S", "e", "t", ".">>

-----------------------------------------------------------------------------
(* upload_files and dashboard as concurrent requests (lines 110-214).     *)
(* The server of line 217 serves each request on a thread of its own; the *)
(* requests share the two files of lines 18-19.  disk.trib and disk.cont  *)
(* name the upload whose file is stored (0: no file); a save and a read   *)
(* of a file are taken as one step each.                                   *)

NumUploads == 2
NumDashboards == 2

Uploads == 1..NumUploads
Dashboards == 1..NumDashboards

\* The two files upload u submits: its collection grid and its taxpayer grid
UploadTrib(u) ==
    <<<<Str(T_Total), NaN, NaN>>,
      <<Str(T_Mes), Str(T_Anio), Str(T_Amazonas)>>,
      <<Str(T_Enero), Num(2024), Num(10 * u)>>>>

UploadCont(u) ==
    <<<<NaN, Num(2024)>>, <<NaN, Str(T_Ene)>>, <<Str(T_Amazonas), Num(u)>>>>

\* Lines 156-214 on two grids: the answers the request can give
DashboardFn(trib_raw, cont_raw, target) ==
    IF TribRaises(trib_raw) THEN {[response |-> "error: limpiar_tributos", rows |-> <<>>]}
    ELSE IF Len(cont_raw) < 2 \/ ContRaises(cont_raw)
    THEN {[response |-> "error: limpiar_contribuyentes", rows |-> <<>>]}
    ELSE LET t == LimpiarTributosFn(trib_raw)
             c == LimpiarContribuyentesFn(cont_raw)
         IN  {[response |-> Responder(res, AniosDisponibles(t, c)), rows |-> res.rows] :
                res \in ProcesarLogicaFn(t, c, target)}

\* Lines 112-113: a request without both files is refused
UploadRefused(u) ==
    /\ up[u] = "start"
    /\ up' = [up EXCEPT ![u] = "400"]
    /\ UNCHANGED <<pc, df_trib_raw, df_cont_raw, anio, header_idx, new_cols, df_trib,
                   df_cont, anios_disponibles, df_resultado, response, disk, dash>>

\* Line 122
SaveTrib(u) ==
    /\ up[u] = "start"
    /\ disk' = [disk EXCEPT !.trib = u]
    /\ up' = [up EXCEPT ![u] = "saved_trib"]
    /\ UNCHANGED <<pc, df_trib_raw, df_cont_raw, anio, header_idx, new_cols, df_trib,
                   df_cont, anios_disponibles, df_resultado, response, dash>>

\* Lines 123-126
SaveCont(u) ==
    /\ up[u] = "saved_trib"
    /\ disk' = [disk EXCEPT !.cont = u]
    /\ up' = [up EXCEPT ![u] = "redirect"]
    /\ UNCHANGED <<pc, df_trib_raw, df_cont_raw, anio, header_idx, new_cols, df_trib,
                   df_cont, anios_disponibles, df_resultado, response, dash>>

\* Lines 130-136
DashCheck(d) ==
    /\ dash[d].pc = "start"
    /\ IF disk.trib = 0 \/ disk.cont = 0
       THEN dash' = [dash EXCEPT ![d].pc = "done", ![d].response = "redirect index"]
       ELSE dash' = [dash EXCEPT ![d].pc = "read_trib"]
    /\ UNCHANGED <<pc, df_trib_raw, df_cont_raw, anio, header_idx, new_cols, df_trib,
                   df_cont, anios_disponibles, df_resultado, response, disk, up>>

\* Lines 145-148
DashReadTrib(d) ==
    /\ dash[d].pc = "read_trib"
    /\ dash' = [dash EXCEPT ![d].pc = "read_cont", ![d].trib = disk.trib]
    /\ UNCHANGED <<pc, df_trib_raw, df_cont_raw, anio, header_idx, new_cols, df_trib,
                   df_cont, anios_disponibles, df_resultado, response, disk, up>>

\* Lines 150-153
DashReadCont(d) ==
    /\ dash[d].pc = "read_cont"
    /\ dash' = [dash EXCEPT ![d].pc = "process", ![d].cont = disk.cont]
    /\ UNCHANGED <<pc, df_trib_raw, df_cont_raw, anio, header_idx, new_cols, df_trib,
                   df_cont, anios_disponibles, df_resultado, response, disk, up>>

\* Lines 156-214
DashProcess(d) ==
    /\ dash[d].pc = "process"
    /\ \E out \in DashboardFn(UploadTrib(dash[d].trib), UploadCont(dash[d].cont), 2024) :
          dash' = [dash EXCEPT ![d].pc = "done", ![d].response = out.response,
                               ![d].rows = out.rows]
    /\ UNCHANGED <<pc, df_trib_raw, df_cont_raw, anio, header_idx, new_cols, df_trib,
                   df_cont, anios_disponibles, df_resultado, response, disk, up>>

InitConc ==
    /\ pc = "serving"
    /\ df_trib_raw = <<>>
    /\ df_cont_raw = <<>>
    /\ anio = 2024
    /\ header_idx = -1
    /\ new_cols = <<>>
    /\ df_trib = <<>>
    /\ df_cont = <<>>
    /\ anios_disponibles = <<>>
    /\ df_resultado = NoResult
    /\ response = ""
    /\ disk = [trib |-> 0, cont |-> 0]
    /\ up = [u \in Uploads |-> "start"]
    /\ dash = [d \in Dashboards |-> [pc |-> "start", trib |-> 0, cont |-> 0,
                                     response |-> "", rows |-> <<>>]]

NextConc ==
    \/ \E u \in Uploads : UploadRefused(u) \/ SaveTrib(u) \/ SaveCont(u)
    \/ \E d \in Dashboards : DashCheck(d) \/ DashReadTrib(d) \/ DashReadCont(d) \/ DashProcess(d)

SpecConc == InitConc /\ [][NextConc]_vars

\* C9 as claimed: the two grids a dashboard request has loaded are the
\* collection grid and the taxpayer grid of one and the same upload.
C9_GridsOfOneUpload ==
    \A d \in Dashboards :
        dash[d].pc \in {"process", "done"} /\ dash[d].response # "redirect index"
            => dash[d].trib = dash[d].cont

=============================================================================
